---- MODULE Spec2Model ----
(***************************************************************************)
(* pngquant-interactive: the interaction thread, the request queue and the *)
(* background worker of src/main.rs, and the Preview session of            *)
(* src/preview.rs with its single-entry cache (src/utilities.rs).          *)
(*                                                                         *)
(* Spec        the application of main.rs, collaborator failures included  *)
(* SessionSpec a Preview session driven by a sequence of quantize/display  *)
(*             calls                                                       *)
(***************************************************************************)
EXTENDS Integers, Sequences, FiniteSets, TLC

(* ------------------------------ bounds --------------------------------- *)
\* Slider ranges, cut down from 1..10, 0..100 and 0..10.
MinEffort == 1
MaxEffort == 2
MaxPreservation == 1
MaxDithering == 1
\* Source image size and the largest viewport the window is resized to.
SrcW == 2
SrcH == 2
MaxView == 3
\* Interaction budget of one run of the application.
MaxWrites == 2
MaxResizes == 2
\* Calls made on one Preview session.
MaxCalls == 3
\* Largest palette the quantizer returns (of up to 256 colours).
MaxColours == 2

(* ------------------------------ values --------------------------------- *)
\* Option<T>: None is the empty tuple, Some(x) the one-element tuple.
None == <<>>
Some(x) == <<x>>

Fields == {"effort", "preservation", "dithering"}

FieldRange(f) ==
    CASE f = "effort" -> MinEffort..MaxEffort
      [] f = "preservation" -> 0..MaxPreservation
      [] f = "dithering" -> 0..MaxDithering

Params == [effort : MinEffort..MaxEffort,
           preservation : 0..MaxPreservation,
           dithering : 0..MaxDithering]

\* Sizes of the preview frame: widths up to MaxView, heights up to the source's.
Sizes == (1..MaxView) \X (1..SrcH)

VARIABLES
    (* shared between the threads *)
    params,            \* Arc<RwLock<Params>>
    queue,             \* to_worker / for_worker: FIFO of Action
    to_app,            \* to_app / for_app: number of Event::Exported in flight
    viewport,          \* (preview.width(), preview.height())
    image,             \* the image set on the preview frame
    gauge,             \* the size gauge: maximum and value
    spinner,           \* whether the spinner frame is shown
    (* interaction thread *)
    ui,                \* "idle", "slider" (inside a slider callback), "quit", "panicked"
    window_active,     \* FALSE once the window has been deactivated
    writes,            \* slider callbacks run so far
    resizes,           \* resize events handled so far
    (* worker thread *)
    wpc,               \* position of the worker
    working,           \* the Params snapshot of the running handler
    displayed_params,
    displayed_size,
    calibrated_gauge,
    quantized_rgba,    \* the render buffer: the Params it was flattened from
    display_size,      \* local of the running preview cycle
    outcome,           \* how the last handler of the worker ended
    stale,             \* Params was changed between two checkpoints of the running cycle
    published,         \* the running cycle has called a publish operation
    artifact,          \* the exported file
    path,              \* the suffix of the name of the exported file
    read_guard,        \* the worker holds a read guard of the Params lock
    (* Preview session of preview.rs *)
    quantization,      \* CachedOption<(u8, u8), QuantizationResult>: the stored key
    palette_rgba,
    quantized_indexed,
    session_rgba,      \* Preview.quantized_rgba
    searches,          \* times the closure of get_or_insert_with has run
    calls,             \* calls made so far
    last_key,          \* (effort, preservation) of the last call that reached the cache
    returned,          \* what the last call returned: "ok", "err", "panic"
    called,            \* the last call: operation, Params and quantizer behaviour
    uses_alpha,        \* Source.uses_alpha
    colours,           \* length of palette_rgba
    encoded,           \* what the last encode handed to the png encoder
    shown              \* what the last display returned

appVars == <<params, queue, to_app, viewport, image, gauge, spinner, ui,
             window_active, writes, resizes, wpc, working, displayed_params,
             displayed_size, calibrated_gauge, quantized_rgba, display_size,
             outcome, stale, published, artifact, path, read_guard>>

sessionVars == <<quantization, palette_rgba, quantized_indexed, session_rgba,
                 searches, calls, last_key, returned, called, uses_alpha, colours,
                 encoded, shown>>

vars == <<appVars, sessionVars>>

workerVars == <<wpc, working, displayed_params, displayed_size, calibrated_gauge,
                quantized_rgba, display_size, outcome, stale, published, artifact,
                path, read_guard>>

(* ----------------------------- main.rs --------------------------------- *)
Max(a, b) == IF a < b THEN b ELSE a

\* The state when main enters its event loop with the defaults of the command
\* line (effort and preservation as given, dithering 0): the window is
\* created with the preview frame at least as large as the source
\* (vw = max(w, wwm), vh = h), the spinner frame is created visible, the gauge
\* with maximum 1.0 and value 0.0, and the first Action::Preview has been sent.
AppInit ==
    /\ params = [effort |-> MaxEffort, preservation |-> MaxPreservation, dithering |-> 0]
    /\ queue = <<"Preview">>
    /\ to_app = 0
    /\ viewport = <<Max(SrcW, MaxView), SrcH>>
    /\ image = None
    /\ gauge = [maximum |-> "unit", value |-> None]
    /\ spinner = TRUE
    /\ ui = "idle"
    /\ window_active = TRUE
    /\ writes = 0
    /\ resizes = 0
    /\ wpc = "idle"
    /\ working = None
    /\ displayed_params = None
    /\ displayed_size = None
    /\ calibrated_gauge = FALSE
    /\ quantized_rgba = None
    /\ display_size = None
    /\ outcome = "none"
    /\ stale = FALSE
    /\ published = FALSE
    /\ artifact = "absent"
    /\ path = None
    /\ read_guard = FALSE

SessionIdle ==
    /\ quantization = None
    /\ palette_rgba = None
    /\ quantized_indexed = None
    /\ session_rgba = None
    /\ searches = 0
    /\ calls = 0
    /\ last_key = None
    /\ returned = "ok"
    /\ called = [op |-> "none", params |-> None, quantizer |-> "ok"]
    /\ colours = 0
    /\ encoded = None
    /\ shown = None

\* The application over a source without alpha.
Init == AppInit /\ SessionIdle /\ uses_alpha = FALSE

\* to_worker.send(action).unwrap(): a send to a worker that has returned
\* finds the receiver dropped and panics.
Send(a) ==
    IF wpc = "dead"
    THEN queue' = queue /\ ui' = "panicked"
    ELSE queue' = Append(queue, a) /\ ui' = "idle"

\* The cycle is between two of its checkpoints: one has been passed and
\* another is still ahead (the one after calibration only in the cycle that
\* calibrates the gauge).
BetweenCheckpoints ==
    \/ wpc \in {"p_quantize", "p_remap", "p_fill", "p_scale", "p_check"}
    \/ wpc \in {"p_publish", "p_calibrate"} /\ ~calibrated_gauge

\* slider callback, first statement: params.write().unwrap().$param = value
SliderWrite(f, v) ==
    /\ ui = "idle"
    /\ window_active
    /\ writes < MaxWrites
    /\ ~read_guard
    /\ params' = [params EXCEPT ![f] = v]
    /\ ui' = "slider"
    /\ writes' = writes + 1
    /\ stale' = (stale \/ (BetweenCheckpoints /\ params' # params))
    /\ UNCHANGED <<queue, to_app, viewport, image, gauge, spinner, window_active,
                   resizes, wpc, working, displayed_params, displayed_size,
                   calibrated_gauge, quantized_rgba, display_size, outcome,
                   published, artifact, path, read_guard>>
    /\ UNCHANGED sessionVars

\* A slider callback that sends no token while the worker is busy.
SliderSendWhenIdle ==
    /\ ui = "slider"
    /\ IF wpc \in {"idle", "dead"}
       THEN Send("Preview")
       ELSE queue' = queue /\ ui' = "idle"
    /\ UNCHANGED <<params, to_app, viewport, image, gauge, spinner, window_active,
                   writes, resizes>>
    /\ UNCHANGED workerVars
    /\ UNCHANGED sessionVars

\* slider callback, second statement: to_worker.send(Action::Preview)
SliderSend ==
    /\ ui = "slider"
    /\ Send("Preview")
    /\ UNCHANGED <<params, to_app, viewport, image, gauge, spinner, window_active,
                   writes, resizes>>
    /\ UNCHANGED workerVars
    /\ UNCHANGED sessionVars

\* ok_button callback that sends Action::Export and leaves the window active.
OkButtonStaysActive ==
    /\ ui = "idle"
    /\ window_active
    /\ Send("Export")
    /\ UNCHANGED <<params, to_app, viewport, image, gauge, spinner, window_active,
                   writes, resizes>>
    /\ UNCHANGED workerVars
    /\ UNCHANGED sessionVars

\* ok_button callback (also run by the Enter key): deactivate the window,
\* then send Action::Export.
OkButton ==
    /\ ui = "idle"
    /\ window_active
    /\ window_active' = FALSE
    /\ Send("Export")
    /\ UNCHANGED <<params, to_app, viewport, image, gauge, spinner, writes, resizes>>
    /\ UNCHANGED workerVars
    /\ UNCHANGED sessionVars

\* UiEvent::Resize: the preview frame has a new size; send Action::Resize.
WindowResize(s) ==
    /\ ui = "idle"
    /\ resizes < MaxResizes
    /\ s \in Sizes
    /\ s # viewport
    /\ viewport' = s
    /\ resizes' = resizes + 1
    /\ Send("Resize")
    /\ UNCHANGED <<params, to_app, image, gauge, spinner, window_active, writes>>
    /\ UNCHANGED workerVars
    /\ UNCHANGED sessionVars

\* main loop: Event::Exported => app.quit(); main returns and the process ends.
ReceiveExported ==
    /\ ui = "idle"
    /\ to_app > 0
    /\ to_app' = to_app - 1
    /\ ui' = "quit"
    /\ UNCHANGED <<params, queue, viewport, image, gauge, spinner, window_active,
                   writes, resizes>>
    /\ UNCHANGED workerVars
    /\ UNCHANGED sessionVars

(* --------------------------- worker thread ----------------------------- *)
\* The process is alive: main has neither returned nor panicked.
Running == ui \in {"idle", "slider"}

uiVars == <<params, queue, to_app, viewport, ui, window_active, writes, resizes>>

\* if pw < w || ph < h { image.scale(pw, ph, ..); (pw, ph) } else { (w, h) }
DisplaySize(vp) ==
    IF vp[1] < SrcW \/ vp[2] < SrcH THEN vp ELSE <<SrcW, SrcH>>

\* A redisplay condition that forgets the undersized proxy.
NeedsRedisplayOnShrink(d, vp) == vp[1] < d[1] \/ vp[2] < d[2]

\* The condition under which Action::Resize redisplays.
NeedsRedisplay(d, vp) ==
    \/ vp[1] < d[1]
    \/ (d[1] < vp[1] /\ d[1] < SrcW)
    \/ vp[2] < d[2]
    \/ (d[2] < vp[2] /\ d[2] < SrcH)

\* A checkpoint that binds the read guard for the rest of the cycle.
CheckpointKeepsGuard(next) ==
    IF params # working[1]
    THEN /\ wpc' = "idle"
         /\ outcome' = "superseded"
         /\ working' = None
         /\ display_size' = None
         /\ read_guard' = FALSE
    ELSE /\ wpc' = next
         /\ read_guard' = TRUE
         /\ UNCHANGED <<outcome, working, display_size>>

\* abort_if_untargeted!(): `continue` when the live Params differ from the
\* snapshot of the cycle, else go on to `next`. The read guard is a temporary
\* of the condition of the `if`: it is dropped before either branch is taken.
Checkpoint(next) ==
    IF params # working[1]
    THEN /\ wpc' = "idle"
         /\ outcome' = "superseded"
         /\ working' = None
         /\ display_size' = None
         /\ read_guard' = FALSE
    ELSE /\ wpc' = next
         /\ read_guard' = FALSE
         /\ UNCHANGED <<outcome, working, display_size>>

\* for_worker.recv() and the match on the action
Recv ==
    /\ Running
    /\ wpc = "idle"
    /\ queue # <<>>
    /\ queue' = Tail(queue)
    /\ wpc' = CASE Head(queue) = "Preview" -> "p_begin"
                [] Head(queue) = "Resize" -> "r_resize"
                [] Head(queue) = "Export" -> "e_begin"
    /\ outcome' = "running"
    /\ stale' = FALSE
    /\ published' = FALSE
    /\ UNCHANGED <<params, to_app, viewport, image, gauge, spinner, ui, window_active,
                   writes, resizes, working, displayed_params, displayed_size,
                   calibrated_gauge, quantized_rgba, display_size, artifact, path,
                   read_guard>>
    /\ UNCHANGED sessionVars

\* Action::Preview without the comparison with displayed_params.
PreviewBeginAlways ==
    /\ Running
    /\ wpc = "p_begin"
    /\ wpc' = "p_bind"
    /\ working' = Some(params)
    /\ spinner' = TRUE
    /\ UNCHANGED outcome
    /\ UNCHANGED uiVars
    /\ UNCHANGED <<image, gauge, displayed_params, displayed_size, calibrated_gauge,
                   quantized_rgba, display_size, stale, published, artifact>>
    /\ read_guard' = FALSE
    /\ UNCHANGED path
    /\ UNCHANGED sessionVars

\* Action::Preview: snapshot the Params, skip when they are the displayed
\* ones, else show the spinner.
PreviewBegin ==
    /\ Running
    /\ wpc = "p_begin"
    /\ IF displayed_params = Some(params)
       THEN /\ wpc' = "idle"
            /\ outcome' = "skipped"
            /\ UNCHANGED <<working, spinner>>
       ELSE /\ wpc' = "p_bind"
            /\ working' = Some(params)
            /\ spinner' = TRUE
            /\ UNCHANGED outcome
    /\ UNCHANGED uiVars
    /\ UNCHANGED <<image, gauge, displayed_params, displayed_size, calibrated_gauge,
                   quantized_rgba, display_size, stale, published, artifact>>
    /\ read_guard' = FALSE
    /\ UNCHANGED path
    /\ UNCHANGED sessionVars

\* set_quality, set_speed, new_image_borrowed, then the first checkpoint
PreviewBind ==
    /\ Running
    /\ wpc = "p_bind"
    /\ Checkpoint("p_quantize")
    /\ UNCHANGED uiVars
    /\ UNCHANGED <<image, gauge, spinner, displayed_params, displayed_size,
                   calibrated_gauge, quantized_rgba, stale, published, artifact>>
    /\ UNCHANGED path
    /\ UNCHANGED sessionVars

\* quantizer.quantize, then a checkpoint
PreviewQuantize ==
    /\ Running
    /\ wpc = "p_quantize"
    /\ Checkpoint("p_remap")
    /\ UNCHANGED uiVars
    /\ UNCHANGED <<image, gauge, spinner, displayed_params, displayed_size,
                   calibrated_gauge, quantized_rgba, stale, published, artifact>>
    /\ UNCHANGED path
    /\ UNCHANGED sessionVars

\* set_dithering_level, remapped, then a checkpoint
PreviewRemap ==
    /\ Running
    /\ wpc = "p_remap"
    /\ Checkpoint("p_fill")
    /\ UNCHANGED uiVars
    /\ UNCHANGED <<image, gauge, spinner, displayed_params, displayed_size,
                   calibrated_gauge, quantized_rgba, stale, published, artifact>>
    /\ UNCHANGED path
    /\ UNCHANGED sessionVars

\* quantized_rgba.clear(); quantized_rgba.extend(..), then a checkpoint
PreviewFill ==
    /\ Running
    /\ wpc = "p_fill"
    /\ quantized_rgba' = working
    /\ Checkpoint("p_scale")
    /\ UNCHANGED uiVars
    /\ UNCHANGED <<image, gauge, spinner, displayed_params, displayed_size,
                   calibrated_gauge, stale, published, artifact>>
    /\ UNCHANGED path
    /\ UNCHANGED sessionVars

\* RgbImage::new, read the size of the preview frame, scale
PreviewScale ==
    /\ Running
    /\ wpc = "p_scale"
    /\ display_size' = Some(DisplaySize(viewport))
    /\ wpc' = "p_check"
    /\ UNCHANGED uiVars
    /\ UNCHANGED <<image, gauge, spinner, working, displayed_params, displayed_size,
                   calibrated_gauge, quantized_rgba, outcome, stale, published,
                   artifact>>
    /\ UNCHANGED <<path, read_guard>>
    /\ UNCHANGED sessionVars

\* the checkpoint before the image is published
PreviewCheck ==
    /\ Running
    /\ wpc = "p_check"
    /\ Checkpoint("p_publish")
    /\ UNCHANGED uiVars
    /\ UNCHANGED <<image, gauge, spinner, displayed_params, displayed_size,
                   calibrated_gauge, quantized_rgba, stale, published, artifact>>
    /\ UNCHANGED path
    /\ UNCHANGED sessionVars

\* preview.set_image(Some(image)); preview.redraw(); app::awake()
PreviewPublish ==
    /\ Running
    /\ wpc = "p_publish"
    /\ image' = Some([of |-> working[1], size |-> display_size[1]])
    /\ published' = TRUE
    /\ wpc' = "p_calibrate"
    /\ UNCHANGED uiVars
    /\ UNCHANGED <<gauge, spinner, working, displayed_params, displayed_size,
                   calibrated_gauge, quantized_rgba, display_size, outcome, stale,
                   artifact>>
    /\ UNCHANGED <<path, read_guard>>
    /\ UNCHANGED sessionVars

\* if !calibrated_gauge { gauge.set_maximum(estimate of the source);
\* calibrated_gauge = true; abort_if_untargeted!() }
PreviewCalibrate ==
    /\ Running
    /\ wpc = "p_calibrate"
    /\ IF ~calibrated_gauge
       THEN /\ gauge' = [gauge EXCEPT !.maximum = "source"]
            /\ calibrated_gauge' = TRUE
            /\ published' = TRUE
            /\ Checkpoint("p_commit")
       ELSE /\ wpc' = "p_commit"
            /\ UNCHANGED <<gauge, calibrated_gauge, published, outcome, working,
                           display_size, read_guard>>
    /\ UNCHANGED uiVars
    /\ UNCHANGED <<image, spinner, displayed_params, displayed_size, quantized_rgba,
                   stale, artifact>>
    /\ UNCHANGED path
    /\ UNCHANGED sessionVars

\* gauge.set_value(estimate of the remapping); spinner.hide();
\* displayed_params.replace(working); displayed_size.replace(display_size)
PreviewCommit ==
    /\ Running
    /\ wpc = "p_commit"
    /\ gauge' = [gauge EXCEPT !.value = working]
    /\ published' = TRUE
    /\ spinner' = FALSE
    /\ displayed_params' = working
    /\ displayed_size' = display_size
    /\ wpc' = "idle"
    /\ outcome' = "committed"
    /\ working' = None
    /\ display_size' = None
    /\ UNCHANGED uiVars
    /\ UNCHANGED <<image, calibrated_gauge, quantized_rgba, stale, artifact>>
    /\ UNCHANGED <<path, read_guard>>
    /\ UNCHANGED sessionVars

\* Action::Resize
Resize ==
    /\ Running
    /\ wpc = "r_resize"
    /\ IF displayed_size # None /\ NeedsRedisplay(displayed_size[1], viewport)
       THEN /\ image' = Some([of |-> quantized_rgba[1], size |-> DisplaySize(viewport)])
            /\ displayed_size' = Some(DisplaySize(viewport))
            /\ outcome' = "redisplayed"
       ELSE /\ UNCHANGED <<image, displayed_size>>
            /\ outcome' = "unchanged"
    /\ wpc' = "idle"
    /\ UNCHANGED uiVars
    /\ UNCHANGED <<gauge, spinner, working, displayed_params, calibrated_gauge,
                   quantized_rgba, display_size, stale, published, artifact>>
    /\ UNCHANGED <<path, read_guard>>
    /\ UNCHANGED sessionVars

\* Action::Export: let working = params.read().unwrap().clone()
ExportBegin ==
    /\ Running
    /\ wpc = "e_begin"
    /\ working' = Some(params)
    /\ wpc' = "e_quantize"
    /\ UNCHANGED uiVars
    /\ UNCHANGED <<image, gauge, spinner, displayed_params, displayed_size,
                   calibrated_gauge, quantized_rgba, display_size, outcome, stale,
                   published, artifact>>
    /\ read_guard' = FALSE
    /\ UNCHANGED path
    /\ UNCHANGED sessionVars

\* set_quality .. remapped, with no checkpoint
ExportQuantize ==
    /\ Running
    /\ wpc = "e_quantize"
    /\ wpc' = "e_create"
    /\ UNCHANGED uiVars
    /\ UNCHANGED <<image, gauge, spinner, working, displayed_params, displayed_size,
                   calibrated_gauge, quantized_rgba, display_size, outcome, stale,
                   published, artifact>>
    /\ UNCHANGED <<path, read_guard>>
    /\ UNCHANGED sessionVars

\* A name that ignores the dithering.
SuffixAlwaysDithered(d) == "fs8"

\* if working.dithering == 0 { "or8" } else { "fs8" }
Suffix(d) == IF d = 0 THEN "or8" ELSE "fs8"

\* path.set_file_name(stem-suffix.png); BufWriter::new(File::create(path)?)
ExportCreate ==
    /\ Running
    /\ wpc = "e_create"
    /\ artifact' = "created"
    /\ wpc' = "e_write"
    /\ UNCHANGED uiVars
    /\ UNCHANGED <<image, gauge, spinner, working, displayed_params, displayed_size,
                   calibrated_gauge, quantized_rgba, display_size, outcome, stale,
                   published>>
    /\ path' = Some(Suffix(working[1].dithering))
    /\ UNCHANGED read_guard
    /\ UNCHANGED sessionVars

\* Encoder::new .. write_header, write_image_data: header and image data are
\* handed to the png writer, which writes the end chunk when it is dropped,
\* over a BufWriter, which is flushed when it is dropped.
ExportWrite ==
    /\ Running
    /\ wpc = "e_write"
    /\ artifact' = "written"
    /\ wpc' = "e_send"
    /\ UNCHANGED uiVars
    /\ UNCHANGED <<image, gauge, spinner, working, displayed_params, displayed_size,
                   calibrated_gauge, quantized_rgba, display_size, outcome, stale,
                   published>>
    /\ UNCHANGED <<path, read_guard>>
    /\ UNCHANGED sessionVars

\* to_app.send(Event::Exported)
ExportSend ==
    /\ Running
    /\ wpc = "e_send"
    /\ to_app' = to_app + 1
    /\ wpc' = "e_drop"
    /\ UNCHANGED <<params, queue, viewport, ui, window_active, writes, resizes>>
    /\ UNCHANGED <<image, gauge, spinner, working, displayed_params, displayed_size,
                   calibrated_gauge, quantized_rgba, display_size, outcome, stale,
                   published, artifact>>
    /\ UNCHANGED <<path, read_guard>>
    /\ UNCHANGED sessionVars

\* end of the match arm: writer and file go out of scope
ExportDrop ==
    /\ Running
    /\ wpc = "e_drop"
    /\ artifact' = "complete"
    /\ wpc' = "idle"
    /\ outcome' = "exported"
    /\ working' = None
    /\ UNCHANGED uiVars
    /\ UNCHANGED <<image, gauge, spinner, displayed_params, displayed_size,
                   calibrated_gauge, quantized_rgba, display_size, stale, published>>
    /\ UNCHANGED <<path, read_guard>>
    /\ UNCHANGED sessionVars

\* The steps of the worker that end in `?`: a quantizer, codec or file
\* error there returns from the closure of the thread.
Fallible ==
    \/ wpc \in {"p_bind", "p_quantize", "p_remap", "p_commit"}
    \/ wpc = "p_calibrate" /\ ~calibrated_gauge
    \/ wpc \in {"e_quantize", "e_create", "e_write"}

WorkerFail ==
    /\ Running
    /\ Fallible
    /\ outcome' = IF wpc \in {"e_quantize", "e_create", "e_write"}
                  THEN "export_failed" ELSE "preview_failed"
    /\ wpc' = "dead"
    /\ working' = None
    /\ display_size' = None
    /\ UNCHANGED uiVars
    /\ UNCHANGED <<image, gauge, spinner, displayed_params, displayed_size,
                   calibrated_gauge, quantized_rgba, stale, published, artifact>>
    /\ UNCHANGED <<path, read_guard>>
    /\ UNCHANGED sessionVars

Interaction ==
    \/ \E f \in Fields : \E v \in FieldRange(f) : SliderWrite(f, v)
    \/ SliderSend
    \/ OkButton
    \/ \E s \in Sizes : WindowResize(s)
    \/ ReceiveExported

Worker ==
    \/ Recv
    \/ PreviewBegin
    \/ PreviewBind
    \/ PreviewQuantize
    \/ PreviewRemap
    \/ PreviewFill
    \/ PreviewScale
    \/ PreviewCheck
    \/ PreviewPublish
    \/ PreviewCalibrate
    \/ PreviewCommit
    \/ Resize
    \/ ExportBegin
    \/ ExportQuantize
    \/ ExportCreate
    \/ ExportWrite
    \/ ExportSend
    \/ ExportDrop

Next == Interaction \/ Worker \/ WorkerFail

Spec == Init /\ [][Next]_vars

(* ------------------- preview.rs and utilities.rs ----------------------- *)
\* The cache key of a Params value.
Key(p) == <<p.effort, p.preservation>>

\* The closure passed to get_or_insert_with: the palette search under the
\* speed and quality of the key. Its result is named by the key it was run for.
Search(key) == key

\* A cache that keeps its entry whatever the key.
EvictNever(cache, key) == cache

\* CachedOption::get_or_insert_with, first statement: an entry stored under
\* another key is taken out.
Evict(cache, key) ==
    IF cache # None /\ cache[1].key # key THEN None ELSE cache

\* CachedOption::get_or_insert_with(key, f) invokes f when nothing is left
\* stored after the eviction.
Misses(cache, key) == Evict(cache, key) = None

\* A cache that adds the new entry to the one it holds.
GetOrInsertWithKeepsOld(cache, key) ==
    IF cache # None /\ cache[1].key = key
    THEN cache
    ELSE <<[key |-> key, value |-> Search(key)]>> \o cache

\* CachedOption::get_or_insert_with(key, f): the cache once the call has
\* returned.
GetOrInsertWith(cache, key) ==
    IF Misses(cache, key)
    THEN Some([key |-> key, value |-> Search(key)])
    ELSE Evict(cache, key)

\* quantization.remapped(&mut image) at a dithering level: the palette and
\* the indices, named by the search result and the level they come from.
Remapped(value, d) == [effort |-> value[1], preservation |-> value[2], dithering |-> d]

\* What the external quantizer does to the calls of one quantize:
\* "bind_err"  new_image_borrowed fails
\* "search_err" set_speed, set_quality or quantize fails inside the closure
\* "dither_err" set_dithering_level fails
\* "remap_err"  remapped fails
Behaviours == {"ok", "bind_err", "search_err", "dither_err", "remap_err"}

\* An early return that has already dropped the cached render.
QuantizeFailedRenderDropped ==
    /\ returned' = "err"
    /\ session_rgba' = None
    /\ UNCHANGED <<palette_rgba, quantized_indexed, colours>>

\* Preview::quantize returning through `?`
QuantizeFailed ==
    /\ returned' = "err"
    /\ UNCHANGED <<palette_rgba, quantized_indexed, session_rgba, colours>>

\* A commit that keeps the cached render.
QuantizeCommitKeepsRender(value, d) ==
    /\ returned' = "ok"
    /\ UNCHANGED session_rgba
    /\ palette_rgba' = Some(Remapped(value, d))
    /\ quantized_indexed' = Some(Remapped(value, d))
    /\ \E n \in 1..MaxColours : colours' = n

\* Preview::quantize, last statements: take the cached render, replace the
\* palette and the indices by the new remapping (of as many colours as the
\* quantizer chose).
QuantizeCommit(value, d) ==
    /\ returned' = "ok"
    /\ session_rgba' = None
    /\ palette_rgba' = Some(Remapped(value, d))
    /\ quantized_indexed' = Some(Remapped(value, d))
    /\ \E n \in 1..MaxColours : colours' = n

\* Preview::quantize(params), the quantizer behaving as r
SessionQuantize(p, r) ==
    LET key == Key(p)
        miss == Misses(quantization, key)
    IN
    /\ returned # "panic"
    /\ calls < MaxCalls
    /\ calls' = calls + 1
    /\ called' = [op |-> "quantize", params |-> Some(p), quantizer |-> r]
    /\ IF r = "bind_err"
       THEN /\ QuantizeFailed
            /\ UNCHANGED <<quantization, searches, last_key>>
       ELSE /\ last_key' = Some(key)
            /\ searches' = IF miss THEN searches + 1 ELSE searches
            /\ IF miss /\ r = "search_err"
               THEN \* unwrap() inside the closure: the entry is gone, the thread panics
                    /\ quantization' = Evict(quantization, key)
                    /\ returned' = "panic"
                    /\ UNCHANGED <<palette_rgba, quantized_indexed, session_rgba,
                                   colours>>
               ELSE /\ quantization' = GetOrInsertWith(quantization, key)
                    /\ IF r \in {"dither_err", "remap_err"}
                       THEN QuantizeFailed
                       ELSE QuantizeCommit(quantization'[1].value, p.dithering)
    /\ UNCHANGED <<uses_alpha, encoded, shown>>
    /\ UNCHANGED appVars

\* Sizes asked of Preview::display: each dimension below, at and above that
\* of the source.
ViewSizes == ((SrcW - 1)..(SrcW + 1)) \X ((SrcH - 1)..(SrcH + 1))

\* A display that scales only when the viewport is smaller in both dimensions.
DownsamplesWhenBothSmaller(vp) == vp[1] < SrcW /\ vp[2] < SrcH

\* if width < self.source.width || height < self.source.height
Downsamples(vp) == vp[1] < SrcW \/ vp[2] < SrcH

\* image.scale(width, height, true, false): the size of the source scaled
\* in proportion to fit the viewport, and never enlarged.
Scale(vp) ==
    IF SrcW * vp[2] >= SrcH * vp[1]
    THEN IF vp[1] < SrcW
         THEN <<vp[1], (2 * SrcH * vp[1] + SrcW) \div (2 * SrcW)>>
         ELSE <<SrcW, SrcH>>
    ELSE IF vp[2] < SrcH
         THEN <<(2 * SrcW * vp[2] + SrcH) \div (2 * SrcH), vp[2]>>
         ELSE <<SrcW, SrcH>>

\* Preview::display(width, height): flatten (palette, indices) unless the
\* flattened render is cached; expect("quantized") panics before the first quantize.
SessionDisplay(vp) ==
    /\ returned # "panic"
    /\ calls < MaxCalls
    /\ calls' = calls + 1
    /\ called' = [op |-> "display", params |-> None, quantizer |-> "ok"]
    /\ IF palette_rgba = None
       THEN /\ returned' = "panic"
            /\ UNCHANGED <<session_rgba, shown>>
       ELSE /\ returned' = "ok"
            /\ session_rgba' = IF session_rgba = None
                               THEN Some([palette |-> palette_rgba[1],
                                          indices |-> quantized_indexed[1]])
                               ELSE session_rgba
            /\ shown' = Some([flattened |-> session_rgba = None,
                              viewport |-> vp,
                              scaled |-> Downsamples(vp),
                              size |-> IF Downsamples(vp) THEN Scale(vp)
                                       ELSE <<SrcW, SrcH>>])
    /\ UNCHANGED <<quantization, palette_rgba, quantized_indexed, searches, last_key,
                   uses_alpha, colours, encoded>>
    /\ UNCHANGED appVars

\* Priority::Size and Priority::Speed
Priorities == {"Size", "Speed"}

\* impl From<Priority> for Compression
Compression(priority) == IF priority = "Size" THEN "Best" ELSE "Fast"

\* An encoder that always writes the transparency table.
EncodedAlwaysTransparency(priority, n, alpha) ==
    [compression |-> Compression(priority), palette |-> n, trns |-> Some(n)]

\* impl Encode for Preview: what the encoder is given before write_header:
\* the compression, the palette of n colours without alpha and, only when
\* the source uses alpha, the n alpha values as transparency table.
Encoded(priority, n, alpha) ==
    [compression |-> Compression(priority),
     palette |-> n,
     trns |-> IF alpha THEN Some(n) ELSE None]

\* Preview::encode(priority, into); estimate() is encode(Priority::Speed, sink).
SessionEncode(priority) ==
    /\ returned # "panic"
    /\ calls < MaxCalls
    /\ calls' = calls + 1
    /\ called' = [op |-> "encode", params |-> None, quantizer |-> "ok"]
    /\ IF palette_rgba = None
       THEN /\ returned' = "panic"
            /\ UNCHANGED encoded
       ELSE /\ returned' = "ok"
            /\ encoded' = Some(Encoded(priority, colours, uses_alpha))
    /\ UNCHANGED <<quantization, palette_rgba, quantized_indexed, session_rgba,
                   searches, last_key, uses_alpha, colours, shown>>
    /\ UNCHANGED appVars

\* The Params handed to Preview::quantize: both ends of the range of each
\* slider. A session depends on Params only through the equality of
\* (effort, preservation) with the cached key and through the dithering level.
SessionParams == [effort : {MinEffort, MaxEffort},
                  preservation : {0, MaxPreservation},
                  dithering : {0, MaxDithering}]

SessionNext ==
    \/ \E p \in SessionParams : \E r \in Behaviours : SessionQuantize(p, r)
    \/ \E vp \in ViewSizes : SessionDisplay(vp)
    \/ \E priority \in Priorities : SessionEncode(priority)

\* A session on its own, over a source with or without alpha: the
\* application stays as it was constructed.
SessionInit == AppInit /\ SessionIdle /\ uses_alpha \in BOOLEAN

SessionSpec == SessionInit /\ [][SessionNext]_vars

(* ------------------------------ claims --------------------------------- *)
ExportPcs == {"e_begin", "e_quantize", "e_create", "e_write", "e_send", "e_drop"}

\* Nothing is outstanding: no callback is running, the worker is blocked on
\* an empty request queue.
Quiescent == ui = "idle" /\ wpc = "idle" /\ queue = <<>>

\* C1 (Freshness): once the interaction has stopped and the worker has become
\* idle on an empty queue, DisplayedState.params is the last-written Params
\* and the published image is the render of those Params.
Freshness ==
    Quiescent => /\ displayed_params = Some(params)
                 /\ image # None
                 /\ image[1].of = params

\* The worker step that calls a presentation publish operation:
\* preview.set_image, gauge.set_maximum or gauge.set_value.
PublishStep ==
    \/ wpc = "p_publish" /\ wpc' = "p_calibrate"
    \/ wpc = "p_calibrate" /\ ~calibrated_gauge /\ calibrated_gauge'
    \/ wpc = "p_commit" /\ outcome' = "committed"

\* C2 (No stale commit): a cycle during which Params was changed between two
\* of its checkpoints calls no publish operation from then on.
NoStaleCommit == [][PublishStep => ~stale]_vars

\* C3: a cycle abandoned at a checkpoint has published nothing: neither the
\* image nor the gauge was set by it.
AbandonedPublishedNothing ==
    (wpc = "idle" /\ outcome = "superseded") => ~published

\* C4 (Coalescing): when the worker, having dequeued a Preview token, finds
\* the live Params equal to DisplayedState.params, it skips the cycle and
\* leaves all of its state and everything published as it was.
CoalescingSkips ==
    [][(wpc = "p_begin" /\ wpc' # wpc /\ displayed_params = Some(params))
        => /\ wpc' = "idle"
           /\ outcome' = "skipped"
           /\ UNCHANGED <<displayed_params, displayed_size, quantized_rgba,
                          calibrated_gauge, spinner, gauge, image, artifact>>]_vars

\* Witness of C4: a Preview token was dequeued and skipped.
CoalescingWitness ==
    /\ wpc = "idle"
    /\ outcome = "skipped"
    /\ displayed_params = Some(params)

\* C5 (Cache correctness): a quantize call runs the palette search exactly
\* when its (effort, preservation) differs from that of the previous call
\* (the first call included), so a run of calls that differ only in dithering
\* runs it once.
CacheCorrectness ==
    [][searches' = searches + (IF last_key' = last_key THEN 0 ELSE 1)]_vars

\* Witness of C5: two successful calls differing in dithering after one search.
CacheReuseWitness ==
    /\ searches = 1
    /\ calls >= 2
    /\ returned = "ok"
    /\ palette_rgba # None
    /\ palette_rgba[1].dithering # 0

\* The condition of C6 in the words of the claim: in some dimension the
\* viewport is smaller than the displayed size, or the displayed size is
\* smaller than both the viewport and the native size.
Native == <<SrcW, SrcH>>

RedisplayDue(d, vp) ==
    \E i \in 1..2 : vp[i] < d[i] \/ (d[i] < vp[i] /\ d[i] < Native[i])

\* C6: Resize re-renders and publishes iff a displayed size is committed and
\* the redisplay is due, and changes nothing otherwise; a viewport shrunk
\* below the displayed size always redisplays, a viewport no smaller than a
\* display at native size never does.
ResizeRedisplays ==
    [][(wpc = "r_resize" /\ wpc' = "idle")
        => LET due == displayed_size # None /\ RedisplayDue(displayed_size[1], viewport)
           IN /\ due <=> outcome' = "redisplayed"
              /\ due => /\ image' = Some([of |-> quantized_rgba[1],
                                          size |-> DisplaySize(viewport)])
                        /\ displayed_size' = Some(DisplaySize(viewport))
              /\ ~due => UNCHANGED <<image, displayed_size>>
              /\ UNCHANGED <<displayed_params, quantized_rgba, gauge, spinner,
                             calibrated_gauge>>
              /\ (displayed_size # None /\ \E i \in 1..2 : viewport[i] < displayed_size[1][i])
                    => outcome' = "redisplayed"
              /\ (displayed_size = Some(Native) /\ \A i \in 1..2 : viewport[i] >= Native[i])
                    => outcome' = "unchanged"]_vars

\* Witness of C6: a Resize has redisplayed, back to the native size.
ResizeWitness ==
    /\ wpc = "idle"
    /\ outcome = "redisplayed"
    /\ displayed_size = Some(Native)
    /\ image # None
    /\ image[1].size = Native

\* C7: a quantizer or codec failure during a preview cycle leaves the worker
\* alive.
PreviewFailureKeepsWorker == outcome = "preview_failed" => wpc # "dead"

\* C8: a failure during an export fails that export only: the worker stays
\* alive and the window does not stay deactivated with nobody left to
\* signal completion.
ExportFailureKeepsApplication ==
    outcome = "export_failed" => (wpc # "dead" /\ (window_active \/ to_app > 0))

\* C9: Event::Exported is in flight or received only once the artifact is
\* completely written, so the application never quits on an incomplete file.
ExportedAfterComplete ==
    (to_app > 0 \/ ui = "quit") => artifact = "complete"

\* An export has been requested and its completion not yet signalled.
ExportPending ==
    \/ \E i \in 1..Len(queue) : queue[i] = "Export"
    \/ wpc \in ExportPcs \ {"e_drop"}

\* C10: from the request of an export to its completion signal no Params
\* write happens, so the export reads the Params live at the request.
NoWriteDuringExport == [][ExportPending => params' = params]_vars

\* Witness of C10: an export read its snapshot after the sliders were used.
ExportReadWitness ==
    /\ wpc = "e_quantize"
    /\ working = Some(params)
    /\ writes > 0
    /\ ~window_active


\* C11: when the quantizer rejects a call made by Preview::quantize, quantize
\* returns to its caller: no call of quantize ends in a panic.
QuantizeReturnsError == called.op = "quantize" => returned # "panic"

\* A step that is a call of Preview::quantize.
QuantizeStep == calls' # calls /\ called'.op = "quantize"

\* C12: the palette and the indices always come from the same remapping; a
\* quantize that succeeds replaces both by the remapping of its Params and
\* clears the cached render in that step; a quantize that fails leaves the
\* palette, the indices and the cached render as they were.
RemappingAllOrNothing ==
    /\ [](palette_rgba = quantized_indexed)
    /\ [][QuantizeStep =>
            IF returned' = "ok"
            THEN /\ palette_rgba' = called'.params
                 /\ quantized_indexed' = called'.params
                 /\ session_rgba' = None
            ELSE UNCHANGED <<palette_rgba, quantized_indexed, session_rgba>>]_vars

\* A quantize has failed while a render was cached.
RemappingFailureWitness ==
    /\ called.op = "quantize"
    /\ returned = "err"
    /\ called.quantizer = "remap_err"
    /\ session_rgba # None

\* C13: encode hands the encoder a transparency table exactly when the source
\* uses alpha; the table has one entry per palette entry; without alpha the
\* encoder gets a palette and no table. This holds at either priority.
TransparencyIffAlpha ==
    encoded # None =>
        /\ encoded[1].palette >= 1
        /\ (encoded[1].trns # None) <=> uses_alpha
        /\ encoded[1].trns # None => encoded[1].trns[1] = encoded[1].palette

\* An export-priority encode of a source with alpha and a palette of several colours.
TransparencyWitness ==
    /\ encoded # None
    /\ uses_alpha
    /\ encoded[1].compression = "Best"
    /\ encoded[1].palette = MaxColours
    /\ encoded[1].trns = Some(MaxColours)

\* A step in which the export creates its file.
ExportCreates == wpc = "e_create" /\ wpc' = "e_write"

\* C14: an export creates one file, named with "or8" when the dithering of
\* the snapshot it quantized is 0 and with "fs8" otherwise; no other step
\* names a file, and an export that has ended has created its file once.
ArtifactNamedByDithering ==
    /\ [][IF ExportCreates
          THEN /\ artifact = "absent"
               /\ path' = Some(IF working[1].dithering = 0 THEN "or8" ELSE "fs8")
          ELSE path' = path]_vars
    /\ [](outcome = "exported" => artifact = "complete" /\ path # None)

\* An export of undithered Params has ended.
ArtifactWitness == outcome = "exported" /\ path = Some("or8") /\ params.dithering = 0

\* C15: display scales the render exactly when the viewport is narrower or
\* lower than the source; otherwise the render is returned at its native size;
\* what it returns fits the viewport when scaled and never exceeds the source.
DisplayDownsamples ==
    shown # None =>
        /\ shown[1].scaled <=> (shown[1].viewport[1] < SrcW \/ shown[1].viewport[2] < SrcH)
        /\ ~shown[1].scaled => shown[1].size = <<SrcW, SrcH>>
        /\ shown[1].scaled => /\ shown[1].size[1] <= shown[1].viewport[1]
                              /\ shown[1].size[2] <= shown[1].viewport[2]
        /\ shown[1].size[1] <= SrcW
        /\ shown[1].size[2] <= SrcH

\* A display into a viewport narrower and higher than the source.
DisplayWitness ==
    /\ shown # None
    /\ shown[1].scaled
    /\ shown[1].viewport[1] < SrcW
    /\ shown[1].viewport[2] > SrcH

\* C16: when a Resize has published an image, the image is the render of
\* the displayed Params.
ResizePublishesDisplayed ==
    (wpc = "idle" /\ outcome = "redisplayed") => image[1].of = displayed_params[1]

\* C17: the cache never holds two entries; a call with the stored key runs no
\* search and leaves the entry; a call with another key runs one search, with
\* the old entry already removed if the search fails, and leaves exactly the
\* entry of the key and of its search.
CacheSingleEntry ==
    /\ [](Len(quantization) <= 1)
    /\ [][(QuantizeStep /\ called'.quantizer # "bind_err") =>
            LET key == <<called'.params[1].effort, called'.params[1].preservation>>
            IN  IF quantization # None /\ quantization[1].key = key
                THEN /\ searches' = searches
                     /\ quantization' = quantization
                ELSE /\ searches' = searches + 1
                     /\ quantization' = IF returned' = "panic" THEN None
                                        ELSE Some([key |-> key, value |-> key])]_vars

\* A second search has replaced the entry of the first.
CacheReplaceWitness ==
    /\ searches = 2
    /\ calls = 2
    /\ quantization # None
    /\ quantization[1].key = last_key[1]

\* The positions at which the worker is about to quantize, remap, render or encode.
HeavyPcs == {"p_quantize", "p_remap", "p_fill", "p_scale", "p_calibrate", "p_commit",
             "e_quantize", "e_create", "e_write"}

\* C18: the worker holds no read guard of the Params lock while a quantize,
\* remap, render or encode step is in progress.
NoGuardAcrossSteps == wpc \in HeavyPcs => ~read_guard

\* Params was written while the worker was inside a cycle, past a checkpoint.
WriteDuringStepWitness == stale /\ wpc \in HeavyPcs /\ working # None /\ params # working[1]

\* C19: an export of Params whose (effort, preservation) are those of the
\* displayed preview does not run the palette search.
ExportReusesQuantization ==
    [][~(/\ wpc = "e_quantize"
         /\ wpc' = "e_create"
         /\ displayed_params # None
         /\ Key(working[1]) = Key(displayed_params[1]))]_vars

\* C20: a cached render is the flattening of the current palette and indices;
\* display flattens only when no render is cached; a quantize that succeeds
\* leaves no cached render.
RenderCacheCoherent ==
    /\ [](session_rgba # None =>
            /\ palette_rgba # None
            /\ session_rgba[1] = [palette |-> palette_rgba[1],
                                  indices |-> quantized_indexed[1]])
    /\ [][(calls' # calls /\ called'.op = "display" /\ returned' = "ok") =>
            /\ shown'[1].flattened <=> session_rgba = None
            /\ session_rgba # None => session_rgba' = session_rgba]_vars
    /\ [][(QuantizeStep /\ returned' = "ok") => session_rgba' = None]_vars

\* A quantize has cleared a render that a display had cached.
RenderClearedWitness ==
    /\ called.op = "quantize"
    /\ returned = "ok"
    /\ shown # None
    /\ session_rgba = None


\* A Preview token is waiting in the request queue.
PreviewPending == \E i \in 1..Len(queue) : queue[i] = "Preview"

\* C21: whenever the worker is blocked on the request queue and no slider
\* callback is between its write and its send, Params different from the
\* displayed ones have a Preview token waiting in the queue.
NoLostWakeup ==
    (wpc = "idle" /\ ui # "slider" /\ displayed_params # Some(params)) => PreviewPending

\* After an abandoned cycle the worker is idle, the Params differ from the
\* displayed ones and a token is waiting.
WakeupWitness ==
    /\ wpc = "idle"
    /\ ui = "idle"
    /\ outcome = "superseded"
    /\ displayed_params # None
    /\ displayed_params # Some(params)
    /\ PreviewPending

\* C22: when the worker is idle on an empty queue and no callback is
\* running, the spinner is hidden.
SpinnerOnlyWhileBusy == Quiescent => ~spinner
====
